---- MODULE Spec2Model ----
(***************************************************************************)
(* A model of gfbi_core: the editable commit model (EditableGitModel: the  *)
(* overlay of modifications, the deleted list, inserted DummyCommits, the  *)
(* undo/redo history), the computation of the commits to start writing     *)
(* from, and the git_filter_rebase worker that replays the commits.        *)
(*                                                                         *)
(* Python values are encoded as triples <<kind, n, tz>> so that values of  *)
(* different Python types are comparable and unequal:                      *)
(*    None            <<"none", 0, 0>>                                     *)
(*    a string        <<"str", k, 0>>   (k names the string, 0 is "")      *)
(*    an int          <<"int", t, 0>>                                      *)
(*    (epoch, tz)     <<"pair", t, z>>  (z names the Timezone object)       *)
(* A row is a Python row (0-based); commits[r + 1] is the commit of row r. *)
(* An Index(row, column) is given as the row and the field name of the     *)
(* column.  An operation that can raise returns [m |-> model, exc |-> e]   *)
(* where e is "" or the name of the exception raised, and m is the model   *)
(* as the exception left it.                                               *)
(***************************************************************************)
EXTENDS Integers, Sequences, FiniteSets, TLC

VARIABLES
    commits,          \* EditableGitModel._commits: the rows, newest first
    modifications,    \* _modifications: commit -> (field -> value)
    detached,         \* dicts popped from _modifications, still held by actions
    deleted_commits,  \* _deleted_commits: a list
    history,          \* _history: a list of events, each a list of actions
    last_history_event, \* _last_history_event: the history cursor
    merge,            \* _merge
    new_branch_name,  \* _new_branch_name
    start_write_cache, \* _start_write_cache
    children_cache,   \* _children_cache
    git_process,      \* _git_process: "None" or "worker"
    graph,            \* the parents of the loaded commits (the repository)
    refs,             \* the branches of the repository: name -> commit
    head,             \* HEAD: a branch, or detached at a commit
    objects,          \* the commits the worker created: commit -> parents, values
    worker,           \* the git_filter_rebase thread of the last write
    current_branch,   \* _current_branch: the name of the branch of the model
    written,          \* "not called", or how the last write() ended
    conflicting_commit, \* _conflicting_commit, NoSha for None
    unmerged_files,   \* _unmerged_files: None or the unmerged paths
    solutions,        \* _solutions: conflicting commit -> its solutions
    threads,          \* the worker threads started and not ended yet
    snap,             \* the view of the model when the open event was started
    post,             \* the view of the model just before the last undo
    phase,            \* "off", or "none", "editing", "undone", "redone"
    budget            \* the number of edits still to explore

vars == <<commits, modifications, detached, deleted_commits, history,
          last_history_event, merge, new_branch_name, start_write_cache,
          children_cache,
          git_process, graph, refs, head, objects, worker, current_branch,
          written, conflicting_commit, unmerged_files, solutions, threads,
          snap, post, phase, budget>>

\* The repository and the worker: what no edit of the model changes.
repo_vars ==
    <<git_process, graph, refs, head, objects, worker, current_branch, written,
      conflicting_commit, unmerged_files, solutions, threads>>

\* ------------------------------------------------------------------ bounds
NumCommits == 2
MaxDummies == 2
MaxEvents == 2
MaxEdits == 2
FrontierCommits == 3
FrontierEdits == 2
MaxCached == 2
MaxFailures == 1
MaxRuns == 2
MaxThreads == 2
MaxReorderRows == 3

\* ------------------------------------------------------------------ values
None == <<"none", 0, 0>>
Str(k) == <<"str", k, 0>>
IntV(t) == <<"int", t, 0>>
Stamp(t, z) == <<"pair", t, z>>
EmptyString == Str(0)

TIME_FIELDS == {"authored_date", "committed_date"}
ACTOR_FIELDS == {"author_name", "committer_name", "author_email", "committer_email"}
EditableFields == TIME_FIELDS \cup ACTOR_FIELDS \cup {"message"}
\* The keys of NAMES that are columns of the model.
NAMES == EditableFields \cup {"hexsha", "parents", "tree"}

\* A loaded commit is a positive number, row r of a loaded model holds commit
\* r + 1; a DummyCommit is a negative one.
RealCommits == 1..NumCommits
DummyCommits == {0 - i : i \in 1..MaxDummies}
IsDummy(c) == c < 0

Range(s) == {s[i] : i \in 1..Len(s)}
EmptyMap == [x \in {} |-> None]

\* The model as one record, for the operations below.
M == [commits |-> commits, mods |-> modifications, detached |-> detached,
      deleted |-> deleted_commits, history |-> history,
      cursor |-> last_history_event, merge |-> merge, nbn |-> new_branch_name]

Ok(m) == [m |-> m, exc |-> ""]
Raise(m, e) == [m |-> m, exc |-> e]

\* ------------------------------------------------------- the loaded commits
\* GitModel.orig_data: the value of the commit object.  A time column is the
\* pair (epoch, timezone).  A commit the worker created has the values it was
\* created with.
OrigData(c, f) ==
    CASE c \in DOMAIN objects -> objects[c].vals[f]
      [] f = "authored_date" -> Stamp(1, 1)
      [] f = "committed_date" -> Stamp(2, 1)
      [] OTHER -> Str(1)

\* ------------------------------------------------------------------- data
is_modified(m, r, f) ==
    LET c == m.commits[r + 1] IN
    IF IsDummy(c) THEN TRUE
    ELSE IF c \in DOMAIN m.mods /\ f \in DOMAIN m.mods[c]
         THEN m.mods[c][f] # OrigData(c, f)
         ELSE FALSE

\* modification[field] raises KeyError when the dict has no such field: the
\* value KeyError stands for the exception.
KeyError == <<"KeyError", 0, 0>>

modified_data(m, r, f) ==
    LET c == m.commits[r + 1] IN
    IF c \in DOMAIN m.mods
    THEN (IF f \in DOMAIN m.mods[c] THEN m.mods[c][f] ELSE KeyError)
    ELSE EmptyString

data(m, r, f) ==
    IF is_modified(m, r, f) THEN modified_data(m, r, f)
    ELSE OrigData(m.commits[r + 1], f)

set_field_data(mods, c, f, v) ==
    IF c \in DOMAIN mods
    THEN [mods EXCEPT ![c] = (f :> v) @@ @]
    ELSE (c :> (f :> v)) @@ mods

\* The index of history[_last_history_event] as Python resolves it: a negative
\* index counts from the end; 0 stands for IndexError.
PyEvent(m) ==
    LET n == Len(m.history)
        i == IF m.cursor >= 0 THEN m.cursor + 1 ELSE n + m.cursor + 1
    IN IF i >= 1 /\ i <= n THEN i ELSE 0

Action(t, pos, c, f, old, new, hm, on, nn) ==
    [t |-> t, pos |-> pos, c |-> c, f |-> f, old |-> old, new |-> new,
     hm |-> hm, on |-> on, nn |-> nn]

SetAction(r, f, old, new) == Action("Set", r, 0, f, old, new, FALSE, <<>>, <<>>)
InsertAction(pos, c) == Action("Insert", pos, c, "", None, None, TRUE, <<>>, <<>>)
RemoveAction(pos, c, hm) == Action("Remove", pos, c, "", None, None, hm, <<>>, <<>>)
SetBranchNameAction(on, nn) == Action("SetBranchName", 0, 0, "", None, None, FALSE, on, nn)

\* self._history[self._last_history_event].append(action)
history_append(m, a) ==
    IF PyEvent(m) = 0 THEN Raise(m, "IndexError")
    ELSE Ok([m EXCEPT !.history[PyEvent(m)] = Append(@, a)])

MergedField(f) ==
    CASE f = "committed_date" -> "authored_date"
      [] f = "authored_date" -> "committed_date"
      [] f = "author_name" -> "committer_name"
      [] f = "committer_name" -> "author_name"
      [] f = "author_email" -> "committer_email"
      [] f = "committer_email" -> "author_email"
      [] OTHER -> ""

\* set_data that puts the row it edits back among the rows that are kept.
set_data_undeleting(m, r, f, v, ignore_history) ==
    IF ~(0 <= r /\ r < Len(m.commits)) THEN Raise(m, "GfbiException")
    ELSE
    LET c == m.commits[r + 1]
        d == data(m, r, f)
        unpack == f \in TIME_FIELDS /\ d # None
    IN
    IF d = KeyError THEN Raise(m, "KeyError")
    ELSE IF unpack /\ d[1] # "pair" THEN Raise(m, "TypeError")
    ELSE
    LET reference == IF f \in TIME_FIELDS
                     THEN (IF d # None THEN IntV(d[2]) ELSE None)
                     ELSE d
    IN
    IF reference = v THEN Ok(m)
    ELSE
    LET m1 == [m EXCEPT !.mods = set_field_data(m.mods, c, f, v),
                        !.deleted = SelectSeq(@, LAMBDA x : x # c)]
        h == IF ignore_history THEN Ok(m1)
             ELSE history_append(m1, SetAction(r, f, reference, v))
    IN
    IF h.exc # "" THEN h
    ELSE IF m.merge /\ MergedField(f) # ""
         THEN Ok([h.m EXCEPT !.mods = set_field_data(h.m.mods, c, MergedField(f), v)])
         ELSE h

\* "reference, tz = self.data(index)" raises TypeError when the value is not a
\* pair; the reference of a pair is its epoch, an int.
set_data(m, r, f, v, ignore_history) ==
    IF ~(0 <= r /\ r < Len(m.commits)) THEN Raise(m, "GfbiException")
    ELSE
    LET c == m.commits[r + 1]
        d == data(m, r, f)
        unpack == f \in TIME_FIELDS /\ d # None
    IN
    IF d = KeyError THEN Raise(m, "KeyError")
    ELSE IF unpack /\ d[1] # "pair" THEN Raise(m, "TypeError")
    ELSE
    LET reference == IF f \in TIME_FIELDS
                     THEN (IF d # None THEN IntV(d[2]) ELSE None)
                     ELSE d
    IN
    IF reference = v THEN Ok(m)
    ELSE
    LET m1 == [m EXCEPT !.mods = set_field_data(m.mods, c, f, v)]
        h == IF ignore_history THEN Ok(m1)
             ELSE history_append(m1, SetAction(r, f, reference, v))
    IN
    IF h.exc # "" THEN h
    ELSE IF m.merge /\ MergedField(f) # ""
         THEN Ok([h.m EXCEPT !.mods = set_field_data(h.m.mods, c, MergedField(f), v)])
         ELSE h

\* ------------------------------------------------------------------ lists
\* list.insert(i, x): an index past the end appends.
ListInsert(s, i, x) ==
    LET k == IF i > Len(s) THEN Len(s) ELSE i
    IN SubSeq(s, 1, k) \o <<x>> \o SubSeq(s, k + 1, Len(s))

\* list.pop(i), the list that is left (i is in range).
ListPop(s, i) == SubSeq(s, 1, i) \o SubSeq(s, i + 2, Len(s))

\* The first index of x in s (1-based), 0 when absent.
ListIndex(s, x) ==
    IF x \in Range(s) THEN CHOOSE i \in 1..Len(s) : s[i] = x /\ \A j \in 1..(i - 1) : s[j] # x
    ELSE 0

\* list.remove(x): the first occurrence is removed (x is in the list).
ListRemove(s, x) == ListPop(s, ListIndex(s, x) - 1)

MapWithout(f, c) == [x \in DOMAIN f \ {c} |-> f[x]]

\* ---------------------------------------------------------------- dummies
HeldCommits(m) ==
    UNION {{m.history[i][j].c : j \in 1..Len(m.history[i])} : i \in 1..Len(m.history)}

UsedDummies(m) ==
    (Range(m.commits) \cup DOMAIN m.mods \cup DOMAIN m.detached \cup HeldCommits(m))
        \cap DummyCommits

FreeDummies(m) == DummyCommits \ UsedDummies(m)

\* DummyCommit(): a new object, here the first identity no object has.
DummyCommit(m) == CHOOSE d \in FreeDummies(m) : \A e \in FreeDummies(m) : d >= e

\* A dict popped from _modifications lives on while an action holds it.
Collect(m) ==
    [m EXCEPT !.detached = [c \in DOMAIN m.detached \cap HeldCommits(m) |-> m.detached[c]]]

\* self._modifications[commit] = modifications, for the dict an action holds.
\* An action holds a reference: the dict has the content it had when it was
\* last in _modifications.  One popped dict is kept for a commit: the dict an
\* InsertAction holds is the popped one when there is one (own = TRUE), the
\* dict a RemoveAction holds is the one in _modifications when there is one.
restore_modifications(m, c, own) ==
    IF c \notin DOMAIN m.detached \/ (c \in DOMAIN m.mods /\ ~own) THEN m
    ELSE [m EXCEPT !.mods = (c :> m.detached[c]) @@ MapWithout(@, c),
                   !.detached = MapWithout(@, c)]

\* ------------------------------------------------------------- operations
start_history_event_keeping(m) ==
    Collect([m EXCEPT !.history = Append(@, <<>>), !.cursor = @ + 1])

start_history_event(m) ==
    LET kept == IF m.cursor < Len(m.history) - 1
                THEN SubSeq(m.history, 1, m.cursor + 1)
                ELSE m.history
    IN Collect([m EXCEPT !.history = Append(kept, <<>>), !.cursor = @ + 1])

RECURSIVE insert_rows(_, _, _)
insert_rows(m, position, rows) ==
    IF rows = 0 THEN Ok(m)
    ELSE
    LET c == DummyCommit(m)
        m1 == [m EXCEPT !.commits = ListInsert(@, position, c),
                        !.mods = (c :> [f \in NAMES |-> None]) @@ @]
        h == history_append(m1, InsertAction(position, c))
    IN IF h.exc # "" THEN h ELSE insert_rows(h.m, position, rows - 1)

is_deleted(m, c) == c \in Range(m.deleted)

\* is_deleted(index) without the test of the row: the list lookup raises
\* IndexError past the ends and counts a negative row from the end.
is_deleted_index_unchecked(m, r) ==
    LET n == Len(m.commits) IN
    IF r >= n \/ r < 0 - n THEN [val |-> FALSE, exc |-> "IndexError"]
    ELSE [val |-> m.commits[((r + n) % n) + 1] \in Range(m.deleted), exc |-> ""]

\* is_deleted(index) for an index, which has a row.
is_deleted_index(m, r) ==
    IF ~(0 <= r /\ r < Len(m.commits))
    THEN [val |-> FALSE, exc |-> "GfbiException"]
    ELSE [val |-> is_deleted(m, m.commits[r + 1]), exc |-> ""]

\* One turn of the loop of remove_rows, for i.
remove_row(m, position, i, ignore_history, really_remove) ==
    IF really_remove
    THEN IF position >= Len(m.commits) THEN Raise(m, "IndexError")
         ELSE
         LET c == m.commits[position + 1]
             m1 == [m EXCEPT !.commits = ListPop(@, position)]
         IN IF c \notin DOMAIN m.mods THEN Raise(m1, "KeyError")
            ELSE Ok([m1 EXCEPT !.mods = MapWithout(@, c),
                               !.detached = @ @@ (c :> m.mods[c])])
    ELSE IF position + i >= Len(m.commits) THEN Raise(m, "IndexError")
         ELSE
         LET c == m.commits[position + i + 1] IN
         IF is_deleted(m, c) THEN Ok(m)
         ELSE
         LET m1 == [m EXCEPT !.deleted = Append(@, c)] IN
         IF ignore_history THEN Ok(m1)
         ELSE history_append(m1, RemoveAction(position, c, c \in DOMAIN m.mods))

RECURSIVE remove_rows_from(_, _, _, _, _, _)
remove_rows_from(m, position, i, rows, ignore_history, really_remove) ==
    IF i >= rows THEN Ok(m)
    ELSE
    LET r == remove_row(m, position, i, ignore_history, really_remove)
    IN IF r.exc # "" THEN r
       ELSE remove_rows_from(r.m, position, i + 1, rows, ignore_history, really_remove)

remove_rows(m, position, rows, ignore_history, really_remove) ==
    remove_rows_from(m, position, 0, rows, ignore_history, really_remove)

\* undelete_commit that leaves the commit in _deleted_commits.
undelete_commit_kept(m, c, hm) ==
    IF ~is_deleted(m, c) THEN Raise(m, "ValueError")
    ELSE Ok(IF hm THEN restore_modifications(m, c, FALSE) ELSE m)

undelete_commit(m, c, hm) ==
    IF ~is_deleted(m, c) THEN Raise(m, "ValueError")
    ELSE
    LET m1 == [m EXCEPT !.deleted = ListRemove(@, c)]
    IN Ok(IF hm THEN restore_modifications(m1, c, FALSE) ELSE m1)

insert_commit(m, row, c, hm) ==
    LET m1 == [m EXCEPT !.commits = ListInsert(@, row, c)]
    IN Ok(IF hm THEN restore_modifications(m1, c, TRUE) ELSE m1)

\* ------------------------------------------------------------ branch name
\* A name is a sequence of characters.  Whitespace holds the characters
\* str.strip() and str.split() take for whitespace: the space, the tab, the
\* newline and the carriage return of them.
Whitespace == {" ", "\t", "\n", "\r"}

\* The characters validate_branch_name looks for: those of " \t\n".
Spaces == {" ", "\t", "\n"}

OldBranchName == <<"m">>

RECURSIVE lstrip(_)
lstrip(name) ==
    IF name # <<>> /\ name[1] \in Whitespace THEN lstrip(Tail(name)) ELSE name

RECURSIVE rstrip(_)
rstrip(name) ==
    IF name # <<>> /\ name[Len(name)] \in Whitespace
    THEN rstrip(SubSeq(name, 1, Len(name) - 1)) ELSE name

strip(name) == rstrip(lstrip(name))

\* git check-ref-format refs/tags/<name>: of its rules, those the names of
\* this model can break: the name is not empty, no component begins with a
\* dot, and there is no space and no control character in it.
check_ref_format(name) ==
    /\ name # <<>>
    /\ name[1] # "."
    /\ \A i \in 1..Len(name) : name[i] \notin Whitespace

\* The first word of a text that begins with no whitespace.
RECURSIVE word(_)
word(text) ==
    IF text = <<>> \/ text[1] \in Whitespace THEN <<>>
    ELSE <<text[1]>> \o word(Tail(text))

\* str.split(): the words of the text, the whitespace between them dropped.
RECURSIVE split(_)
split(text) ==
    LET rest == lstrip(text) IN
    IF rest = <<>> THEN <<>>
    ELSE <<word(rest)>> \o split(SubSeq(rest, Len(word(rest)) + 1, Len(rest)))

\* "refs/tags/", one character of the command validate_branch_name builds.
RefsTags == "refs/tags/"

\* Popen(command.split()) and the status of the process: git is given the
\* words that follow "git check-ref-format", it fails unless there is one
\* word, and then checks that word.
git_check_ref_format(candidate) ==
    LET args == split(<<RefsTags>> \o candidate) IN
    /\ Len(args) = 1
    /\ check_ref_format(Tail(args[1]))

\* TRUE when validate_branch_name gets as far as running git.
consults_git(candidate) ==
    /\ candidate # <<>>
    /\ \A i \in 1..Len(candidate) : candidate[i] \notin Spaces

\* TRUE when validate_branch_name returns, FALSE when it raises ValueError.
validate_branch_name(candidate) ==
    /\ candidate # <<>>
    /\ \A i \in 1..Len(candidate) : candidate[i] \notin Spaces
    /\ git_check_ref_format(candidate)

\* is_valid_branch_name: the pair it returns, the error named by its class.
is_valid_branch_name(name) ==
    IF validate_branch_name(name) THEN <<TRUE, "None">> ELSE <<FALSE, "ValueError">>

\* set_new_branch_name that does not trim the name it is given.
set_new_branch_name_untrimmed(m, given, ignore_history) ==
    LET h == IF ignore_history THEN Ok(m)
             ELSE history_append(m, SetBranchNameAction(m.nbn, given))
    IN
    IF h.exc # "" THEN h
    ELSE IF given = OldBranchName THEN Ok([h.m EXCEPT !.nbn = <<>>])
    ELSE IF ignore_history /\ given = <<>> THEN Ok([h.m EXCEPT !.nbn = <<>>])
    ELSE IF ~validate_branch_name(given) THEN Raise(h.m, "ValueError")
    ELSE Ok([h.m EXCEPT !.nbn = given])

set_new_branch_name(m, given, ignore_history) ==
    LET name == strip(given)
        h == IF ignore_history THEN Ok(m)
             ELSE history_append(m, SetBranchNameAction(m.nbn, name))
    IN
    IF h.exc # "" THEN h
    ELSE IF name = OldBranchName THEN Ok([h.m EXCEPT !.nbn = <<>>])
    ELSE IF ignore_history /\ name = <<>> THEN Ok([h.m EXCEPT !.nbn = <<>>])
    ELSE IF ~validate_branch_name(name) THEN Raise(h.m, "ValueError")
    ELSE Ok([h.m EXCEPT !.nbn = name])

\* ---------------------------------------------------------------- history
\* The undo of the actions where an InsertAction only marks its row deleted.
action_undo_marking(m, a) ==
    CASE a.t = "Insert" -> remove_rows(m, a.pos, 1, TRUE, FALSE)
      [] a.t = "Set" -> set_data(m, a.pos, a.f, a.old, TRUE)
      [] a.t = "Remove" -> undelete_commit(m, a.c, a.hm)
      [] OTHER -> set_new_branch_name(m, a.on, TRUE)

action_undo(m, a) ==
    CASE a.t = "Insert" -> remove_rows(m, a.pos, 1, TRUE, TRUE)
      [] a.t = "Set" -> set_data(m, a.pos, a.f, a.old, TRUE)
      [] a.t = "Remove" -> undelete_commit(m, a.c, a.hm)
      [] OTHER -> set_new_branch_name(m, a.on, TRUE)

action_redo(m, a) ==
    CASE a.t = "Insert" -> insert_commit(m, a.pos, a.c, a.hm)
      [] a.t = "Set" -> set_data(m, a.pos, a.f, a.new, TRUE)
      [] a.t = "Remove" -> remove_rows(m, a.pos, 1, TRUE, FALSE)
      [] OTHER -> set_new_branch_name(m, a.nn, TRUE)

\* for action in reversed(actions): action.undo(model)
RECURSIVE undo_actions(_, _)
undo_actions(m, actions) ==
    IF actions = <<>> THEN Ok(m)
    ELSE
    LET r == action_undo(m, actions[Len(actions)])
    IN IF r.exc # "" THEN r
       ELSE undo_actions(r.m, SubSeq(actions, 1, Len(actions) - 1))

\* for action in actions: action.redo(model)
RECURSIVE redo_actions(_, _)
redo_actions(m, actions) ==
    IF actions = <<>> THEN Ok(m)
    ELSE
    LET r == action_redo(m, Head(actions))
    IN IF r.exc # "" THEN r ELSE redo_actions(r.m, Tail(actions))

undo_history(m) ==
    IF m.cursor >= 0
    THEN LET r == undo_actions(m, m.history[m.cursor + 1])
         IN IF r.exc # "" THEN r ELSE Ok([r.m EXCEPT !.cursor = @ - 1])
    ELSE Ok(m)

redo_history(m) ==
    IF m.cursor < Len(m.history) - 1
    THEN LET m1 == [m EXCEPT !.cursor = @ + 1]
         IN redo_actions(m1, m1.history[m1.cursor + 1])
    ELSE Ok(m)

set_merge(m, merge_state) == [m EXCEPT !.merge = merge_state]

\* ------------------------------------------------------------------- view
\* What a caller reads: every data(row, column), the rows and the deleted set.
View(m) ==
    [commits |-> m.commits,
     deleted |-> Range(m.deleted),
     data |-> [i \in 1..Len(m.commits) |-> [f \in EditableFields |-> data(m, i - 1, f)]]]

NoView == [commits |-> <<>>, deleted |-> {}, data |-> <<>>]

\* ---------------------------------------------------------------- actions
Rows(m) == 0..(Len(m.commits) - 1)

Apply(m) ==
    LET n == Collect(m) IN
    /\ commits' = n.commits
    /\ modifications' = n.mods
    /\ detached' = n.detached
    /\ deleted_commits' = n.deleted
    /\ history' = n.history
    /\ last_history_event' = n.cursor
    /\ merge' = n.merge
    /\ new_branch_name' = n.nbn

\* An edit that returned keeps the open event open; any other ends it.
Edited(exc) ==
    LET keep == exc = "" /\ phase = "editing" IN
    /\ budget' = budget - 1
    /\ phase' = IF phase = "off" THEN "off" ELSE IF keep THEN "editing" ELSE "none"
    /\ snap' = IF keep THEN snap ELSE NoView
    /\ post' = NoView

\* The values a caller gives for a column.
InputValues(f) ==
    IF f \in TIME_FIELDS THEN {Stamp(1, 1), Stamp(2, 1)} ELSE {Str(1), Str(2)}

InputNames == {<<"t">>, <<"m">>, <<".">>}

\* The columns the editing model edits: a time column, an actor column and the
\* message; with merge on, the first two write their paired columns too.
ExploredFields == {"committed_date", "author_name", "message"}

\* An edit is explored once an event was started, while the budget lasts.
Room == PyEvent(M) # 0 /\ budget > 0

StartHistoryEvent ==
    /\ last_history_event + 2 <= MaxEvents
    /\ Apply(start_history_event(M))
    /\ phase' = IF phase = "off" THEN "off" ELSE "editing"
    /\ snap' = IF phase = "off" THEN NoView ELSE View(start_history_event(M))
    /\ post' = NoView
    /\ UNCHANGED <<start_write_cache, children_cache, repo_vars, budget>>

SetData(r, f, v) ==
    /\ Room
    /\ LET res == set_data(M, r, f, v, FALSE) IN Apply(res.m) /\ Edited(res.exc)
    /\ UNCHANGED <<start_write_cache, children_cache, repo_vars>>

SetMerge(b) ==
    /\ merge # b
    /\ Apply(set_merge(M, b))
    /\ UNCHANGED <<start_write_cache, children_cache, repo_vars, snap, post, phase, budget>>

InsertRows(position, rows) ==
    /\ Room
    /\ Cardinality(FreeDummies(M)) >= rows
    /\ LET res == insert_rows(M, position, rows) IN Apply(res.m) /\ Edited(res.exc)
    /\ UNCHANGED <<start_write_cache, children_cache, repo_vars>>

RemoveRows(position, rows) ==
    /\ Room
    /\ LET res == remove_rows(M, position, rows, FALSE, FALSE)
       IN Apply(res.m) /\ Edited(res.exc)
    /\ UNCHANGED <<start_write_cache, children_cache, repo_vars>>

SetNewBranchName(name) ==
    /\ Room
    /\ LET res == set_new_branch_name(M, name, FALSE)
       IN Apply(res.m) /\ Edited(res.exc)
    /\ UNCHANGED <<start_write_cache, children_cache, repo_vars>>

Undo ==
    /\ Apply(undo_history(M).m)
    /\ phase' = IF phase = "off" THEN "off"
                ELSE IF phase = "editing" THEN "undone" ELSE "none"
    /\ snap' = IF phase = "editing" THEN snap ELSE NoView
    /\ post' = IF phase = "editing" THEN View(M) ELSE NoView
    /\ UNCHANGED <<start_write_cache, children_cache, repo_vars, budget>>

Redo ==
    /\ Apply(redo_history(M).m)
    /\ phase' = IF phase = "off" THEN "off"
                ELSE IF phase = "undone" THEN "redone" ELSE "none"
    /\ snap' = NoView
    /\ post' = IF phase = "undone" THEN post ELSE NoView
    /\ UNCHANGED <<start_write_cache, children_cache, repo_vars, budget>>

\* ------------------------------------------------------- HEAD and the worker
\* HEAD on a branch, or detached at a commit.
OnBranch(name) == [branch |-> name, at |-> 0]
Detached(sha) == [branch |-> <<>>, at |-> sha]

\* None where a sha is expected (_last_updated_sha before any commit-tree).
NoSha == 0

\* 'gitbuster_rebase', the branch the worker works on.
Scratch == <<"g">>

\* No git command fails and no cherry-pick conflicts.
NoFailures ==
    [co_b |-> FALSE, upd |-> FALSE, co_s |-> FALSE, mv |-> FALSE, conflicts |-> {}]

\* A model with nothing loaded.
NoModel ==
    [commits |-> <<>>, mods |-> EmptyMap, detached |-> EmptyMap, deleted |-> <<>>,
     history |-> <<>>, cursor |-> -1, merge |-> FALSE, nbn |-> <<>>]

\* The worker: state is "none" before any run and "stopped" after run();
\* branch and tip are the branch of the model and its commit when the worker
\* was made, m0 the model and refs0 the refs at that time, env the failures
\* its git commands met; failed holds the git commands that failed before
\* the branch -M; raised is the exception run() ended with, "" when it
\* returned.
NoWorker ==
    [state |-> "none", start |-> 0, branch |-> <<>>, tip |-> 0,
     finished |-> FALSE, success |-> FALSE, raised |-> "", failed |-> {},
     conflict |-> 0, last |-> NoSha, progress |-> 0, top |-> 0,
     refs0 |-> EmptyMap, env |-> NoFailures, m0 |-> NoModel, runs |-> 0,
     updated |-> EmptyMap, hit |-> {}, solutions |-> EmptyMap]

\* ------------------------------------------------------ the editing model
LinearGraph == [c \in RealCommits |-> IF c < NumCommits THEN <<c + 1>> ELSE <<>>]

InitWith(branches) ==
    /\ commits = [i \in DOMAIN graph |-> i]
    /\ modifications = EmptyMap
    /\ detached = EmptyMap
    /\ deleted_commits = <<>>
    /\ history = <<>>
    /\ last_history_event = -1
    /\ merge = FALSE
    /\ new_branch_name = <<>>
    /\ start_write_cache = EmptyMap
    /\ children_cache = EmptyMap
    /\ git_process = "None"
    /\ refs = branches
    /\ head = OnBranch(OldBranchName)
    /\ objects = EmptyMap
    /\ worker = NoWorker
    /\ current_branch = OldBranchName
    /\ written = "not called"
    /\ conflicting_commit = NoSha
    /\ unmerged_files = None
    /\ solutions = EmptyMap
    /\ threads = <<>>
    /\ snap = NoView
    /\ post = NoView

InitModel == InitWith((OldBranchName :> 1))

Init == graph = LinearGraph /\ InitModel /\ phase = "off" /\ budget = MaxEdits

Next ==
    \/ StartHistoryEvent
    \/ \E r \in 0..(Len(commits) - 1), f \in ExploredFields :
           \E v \in InputValues(f) : SetData(r, f, v)
    \/ \E b \in BOOLEAN : SetMerge(b)
    \/ \E p \in 0..Len(commits), n \in 1..MaxDummies : InsertRows(p, n)
    \/ \E p \in 0..(Len(commits) - 1), n \in 1..Len(commits) :
           p + n <= Len(commits) /\ RemoveRows(p, n)
    \/ \E name \in InputNames : SetNewBranchName(name)
    \/ Undo
    \/ Redo

Spec == Init /\ [][Next]_vars

\* The editing model with the views of the open event recorded, for the
\* statements about undo() and redo() after a sequence of edits.
InitUndo == graph = LinearGraph /\ InitModel /\ phase = "none" /\ budget = MaxEdits

SpecUndo == InitUndo /\ [][Next]_vars

\* ------------------------------------------- the commits to start writing from
\* GitModel.row_of: the row of a commit of the model.
row_of(m, c) == ListIndex(m.commits, c) - 1

\* EditableGitModel.is_fake_model: a model loaded from a branch is not fake.
is_fake_model == FALSE

\* The columns commit_is_modified looks at: every column but "children".
Columns == NAMES

\* commit_is_modified that does not look at _deleted_commits.
commit_is_modified_any(m, c) ==
    \E f \in Columns : is_modified(m, row_of(m, c), f)

commit_is_modified(m, c) ==
    \E f \in Columns : is_modified(m, row_of(m, c), f) /\ ~is_deleted(m, c)

\* get_modified_count that counts the commits marked deleted too.
get_modified_count_deleted(m) ==
    Cardinality({c \in Range(m.commits) : commit_is_modified_any(m, c)})

\* The set of the commits of the model that are modified and not deleted.
get_modified_count(m) ==
    Cardinality({c \in Range(m.commits) :
                    commit_is_modified(m, c) /\ ~is_deleted(m, c)})

\* Every column of the model: those commit_is_modified looks at and "children".
AllColumns == Columns \cup {"children"}

\* c_data(commit, "parents"): the parents the repository gives, a sequence,
\* unless the column is modified.
c_data_parents(m, g, c) ==
    IF is_modified(m, row_of(m, c), "parents")
    THEN modified_data(m, row_of(m, c), "parents")
    ELSE g[c]

\* The commits all_parents yields for a commit whose line of parents holds
\* loaded commits only.
RECURSIVE all_parents(_, _)
all_parents(g, c) ==
    UNION {{p} \cup all_parents(g, p) : p \in Range(g[c])}

\* "parent in self.all_parents(_parent)" iterates the parents of _parent: it
\* raises when they are None, the value the column has for a DummyCommit.
CannotWalk(m, g, c) ==
    /\ is_modified(m, row_of(m, c), "parents")
    /\ c_data_parents(m, g, c) # EmptyString

\* The inner loop of the pruning, for one parent of the outer loop.  A turn
\* of the inner loop removes nothing but its own _parent, so the order of the
\* turns does not change what is left.
prune_with(parents, smaller, g, parent) ==
    smaller \ {q \in parents \ {parent} : q \in smaller /\ parent \in all_parents(g, q)}

\* The pruning without the removal.
prune_step_kept(parents, smaller, g, parent) == smaller

prune_step(parents, smaller, g, parent) ==
    IF parent \notin smaller THEN smaller
    ELSE prune_with(parents, smaller, g, parent)

\* The outer loop, "for parent in parents", in the order the set gives them.
RECURSIVE prune(_, _, _, _)
prune(parents, smaller, g, order) ==
    IF order = <<>> THEN smaller
    ELSE prune(parents, prune_step(parents, smaller, g, Head(order)), g, Tail(order))

\* The orders a set can be iterated in.
Orders(S) == {o \in [1..Cardinality(S) -> S] : Range(o) = S}

\* The key of the cache is tuple(self._modifications.keys()): here the set of
\* the keys.
CacheKey(m) == DOMAIN m.mods

ModifiedKeys(m) == {c \in DOMAIN m.mods : commit_is_modified(m, c)}

\* get_start_write_from: the set returned, the cache afterwards, the exception.
get_start_write_from(m, cache, g, order) ==
    IF CacheKey(m) \in DOMAIN cache
    THEN [P |-> cache[CacheKey(m)], cache |-> cache, exc |-> ""]
    ELSE IF \E c \in DOMAIN m.mods : c \notin Range(m.commits)
    THEN [P |-> {}, cache |-> cache, exc |-> "ValueError"]
    ELSE
    LET parents == ModifiedKeys(m) IN
    IF Cardinality(parents) >= 2 /\ \E q \in parents : CannotWalk(m, g, q)
    THEN [P |-> {}, cache |-> cache, exc |-> "TypeError"]
    ELSE
    LET smaller == prune(parents, parents, g, order)
        P == IF parents = {} /\ is_fake_model THEN {m.commits[1]} ELSE smaller
    IN [P |-> P, cache |-> (CacheKey(m) :> P) @@ cache, exc |-> ""]

\* A call is explored while the cache holds fewer than MaxCached sets.
GetStartWriteFrom(order) ==
    /\ Cardinality(DOMAIN start_write_cache) < MaxCached
    /\ start_write_cache' = get_start_write_from(M, start_write_cache, graph, order).cache
    /\ UNCHANGED children_cache
    /\ UNCHANGED <<commits, modifications, detached, deleted_commits, history,
                   last_history_event, merge, new_branch_name, repo_vars,
                   snap, post, phase, budget>>

\* The repositories of the frontier model: every graph of FrontierCommits
\* commits where a parent is an older commit (a later row) and every commit
\* is the tip of the branch, commit 1, or one of all its parents.
RECURSIVE SetToSeq(_)
SetToSeq(S) ==
    IF S = {} THEN <<>>
    ELSE LET x == CHOOSE y \in S : \A z \in S : y <= z
         IN <<x>> \o SetToSeq(S \ {x})

OlderParents ==
    {[c \in 1..FrontierCommits |-> SetToSeq(ps[c])] :
        ps \in {f \in [1..FrontierCommits -> SUBSET (1..FrontierCommits)] :
                  \A c \in 1..FrontierCommits : \A p \in f[c] : p > c}}

Graphs == {g \in OlderParents : all_parents(g, 1) \cup {1} = 1..FrontierCommits}

InitFrontier ==
    /\ graph \in Graphs
    /\ InitModel
    /\ phase = "off"
    /\ budget = FrontierEdits

NextFrontier ==
    \/ StartHistoryEvent
    \/ \E r \in Rows(M) : SetData(r, "message", Str(2))
    \/ Undo
    \/ Redo
    \/ \E order \in Orders(ModifiedKeys(M)) : GetStartWriteFrom(order)

SpecFrontier == InitFrontier /\ [][NextFrontier]_vars

\* --------------------------------------------------------- the repository
Repo == [refs |-> refs, head |-> head, graph |-> graph, objects |-> objects]

\* The failures of the git commands of one run: checkout -b, update-ref,
\* checkout of the scratch branch, branch -M, and the commits whose
\* cherry-pick stops on a conflict.
Failures ==
    LET N(b) == IF b THEN 1 ELSE 0
    IN {F \in [co_b : BOOLEAN, upd : BOOLEAN, co_s : BOOLEAN, mv : BOOLEAN,
               conflicts : SUBSET (1..FrontierCommits)] :
           N(F.co_b) + N(F.upd) + N(F.co_s) + N(F.mv) + Cardinality(F.conflicts)
               <= MaxFailures}

Done(R) == [R |-> R, ok |-> TRUE]
Failed(R) == [R |-> R, ok |-> FALSE]

\* git checkout <sha> -b <name>: refused when the branch exists.
git_checkout_b(R, sha, name, fails) ==
    IF fails \/ name \in DOMAIN R.refs THEN Failed(R)
    ELSE Done([R EXCEPT !.refs = (name :> sha) @@ @, !.head = OnBranch(name)])

\* git checkout -f <sha>: HEAD is detached at the commit.
git_checkout_f(R, sha) == [R EXCEPT !.head = Detached(sha)]

\* git update-ref refs/heads/<name> <sha>: refused when <sha> is not a sha
\* ("None").
git_update_ref(R, name, sha, fails) ==
    IF fails \/ sha = NoSha THEN Failed(R)
    ELSE Done([R EXCEPT !.refs = (name :> sha) @@ MapWithout(@, name)])

\* git checkout <name>
git_checkout(R, name, fails) ==
    IF fails \/ name \notin DOMAIN R.refs THEN Failed(R)
    ELSE Done([R EXCEPT !.head = OnBranch(name)])

\* git branch -M <name>: the branch HEAD is on is renamed, over a branch of
\* that name if there is one; refused when HEAD is detached.
git_branch_M_kept(R, name, fails) == Done(R)

git_branch_M(R, name, fails) ==
    IF fails \/ R.head.branch = <<>> THEN Failed(R)
    ELSE IF R.head.branch = name THEN Done(R)
    ELSE Done([R EXCEPT
                 !.refs = (name :> R.refs[R.head.branch])
                              @@ MapWithout(MapWithout(@, name), R.head.branch),
                 !.head = OnBranch(name)])

\* git branch -D <name>: refused for the branch HEAD is on.
git_branch_D(R, name) ==
    IF name \notin DOMAIN R.refs \/ R.head.branch = name THEN Failed(R)
    ELSE Done([R EXCEPT !.refs = MapWithout(@, name)])

\* ------------------------------------------------------------- the worker
\* The number a commit object is told from its rewritten copies by: the k-th
\* copy of commit c is c + k * Copies.
Copies == 10
OrigOf(sha) == sha % Copies
NewSha(R, c) ==
    c + Copies * (1 + Cardinality({i \in DOMAIN R.objects : OrigOf(i) = OrigOf(c)}))

\* What git sets for the committer of a commit it creates.
GitCommitter == Str(3)
GitNow == Stamp(3, 1)

cleanup_repo(R, fallback) ==
    IF Scratch \in DOMAIN R.refs
    THEN git_branch_D(git_checkout(R, fallback, FALSE).R, Scratch).R
    ELSE R

children_commits_to_rewrite(m, g, updated_parent) ==
    LET IsChild(c) == updated_parent \in Range(g[c])
    IN SelectSeq(m.commits, IsChild)

RECURSIVE all_should_be_updated(_, _, _)
all_should_be_updated(m, g, updated_parent) ==
    LET children == Range(children_commits_to_rewrite(m, g, updated_parent))
    IN children \cup UNION {all_should_be_updated(m, g, c) : c \in children}

\* prepare_arguments: TRUE when it raises (a date that is no pair).
prepare_raises(m, row, force) ==
    \E f \in TIME_FIELDS :
        /\ f = "authored_date" \/ force
        /\ data(m, row, f)[1] # "pair"

\* The values of the commit git commit-tree creates for a row.
prepare_arguments(m, row, force) ==
    [f \in NAMES |->
        CASE f \in {"author_name", "author_email", "authored_date", "message"} ->
                 data(m, row, f)
          [] f \in {"committer_name", "committer_email"} ->
                 IF force THEN data(m, row, f) ELSE GitCommitter
          [] f = "committed_date" ->
                 IF force THEN data(m, row, f) ELSE GitNow
          [] OTHER -> Str(1)]

\* The solutions of a conflict: for every unmerged path, or for some only.
AllPaths == "all"
SomePaths == "some"

\* The unmerged paths git status reports for the conflict of a commit.
UnmergedFiles(commit) == <<"files", commit, 0>>

\* Whether solutions are stored for the conflicting commit.
has_solution_never(w, commit) == FALSE

has_solution(w, commit) == commit \in DOMAIN w.solutions

\* The conflict that has no solution: the unmerged state is handed to the
\* model, the repository cleaned, and ref_update returns False.
unmerged_state_unset(S, w, commit, R1) ==
    [S |-> [S EXCEPT !.R = cleanup_repo(R1, w.fallback),
                     !.failed = @ \cup {"cherry-pick"}],
     ret |-> "False"]

unmerged_state(S, w, commit, R1) ==
    [S |-> [S EXCEPT !.R = cleanup_repo(R1, w.fallback),
                     !.unmerged = UnmergedFiles(commit),
                     !.failed = @ \cup {"cherry-pick"}],
     ret |-> "False"]

\* ref_update and the loop over the children: S is the state of the run,
\* ret is "True", "False" or the exception raised.
RECURSIVE ref_update(_, _, _, _)
RECURSIVE ref_update_each(_, _, _, _)

ref_update(m, w, S, commit) ==
    LET g == S.R.graph
        parents == g[commit]
        waits == /\ Len(parents) # 1
                 /\ \E i \in 1..Len(parents) :
                        parents[i] \in w.should /\ parents[i] \notin DOMAIN S.updated
    IN
    IF is_deleted(m, commit) \/ waits THEN [S |-> S, ret |-> "True"]
    ELSE IF parents = <<>> THEN [S |-> S, ret |-> "IndexError"]
    ELSE
    LET commit_row == row_of(m, commit)
        Updated(p) == IF p \in DOMAIN S.updated THEN S.updated[p] ELSE p
        R1 == git_checkout_f(S.R, Updated(parents[1]))
        conflicts == commit \in w.F.conflicts
        Sc == IF conflicts
              THEN [S EXCEPT !.conflict = commit, !.hit = @ \cup {commit}]
              ELSE S
    IN
    IF conflicts /\ ~has_solution(w, commit)
    THEN unmerged_state(Sc, w, commit, R1)
    ELSE IF conflicts /\ w.solutions[commit] # AllPaths
    THEN [S |-> [Sc EXCEPT !.R = R1], ret |-> "IndexError"]
    ELSE IF prepare_raises(m, commit_row, w.force)
    THEN [S |-> [Sc EXCEPT !.R = R1], ret |-> "TypeError"]
    ELSE
    LET new_sha == NewSha(R1, commit)
        R2 == [R1 EXCEPT
                 !.graph = (new_sha :> [i \in 1..Len(parents) |-> Updated(parents[i])]) @@ @,
                 !.objects = (new_sha :> [vals |-> prepare_arguments(m, commit_row, w.force)]) @@ @]
        S1 == [Sc EXCEPT !.R = R2,
                        !.last = new_sha,
                        !.updated = (commit :> new_sha) @@ MapWithout(@, commit),
                        !.progress = @ + 1]
    IN ref_update_each(m, w, S1, children_commits_to_rewrite(m, g, commit))

ref_update_each(m, w, S, children) ==
    IF children = <<>> THEN [S |-> S, ret |-> "True"]
    ELSE LET r == ref_update(m, w, S, Head(children))
         IN IF r.ret # "True" THEN r
            ELSE ref_update_each(m, w, r.S, Tail(children))

\* The commits of a branch, newest first: the tip and all its parents.
RECURSIVE Ancestry(_, _)
Ancestry(g, sha) == {sha} \cup UNION {Ancestry(g, p) : p \in Range(g[sha])}

RECURSIVE NewestFirst(_)
NewestFirst(S) ==
    IF S = {} THEN <<>>
    ELSE LET x == CHOOSE y \in S : \A z \in S :
                      \/ OrigOf(y) < OrigOf(z)
                      \/ OrigOf(y) = OrigOf(z) /\ y <= z
         IN <<x>> \o NewestFirst(S \ {x})

Walk(R, name) == NewestFirst(Ancestry(R.graph, R.refs[name]))

\* init_attributes on the model record.
init_attributes(m) ==
    [m EXCEPT !.mods = EmptyMap, !.detached = EmptyMap, !.deleted = <<>>,
              !.history = <<>>, !.cursor = -1, !.merge = FALSE, !.nbn = <<>>]

\* populate: the attributes are reset, then the commits of the branch are
\* read; it raises when the branch is not there.
populate(m, R, name) ==
    IF name \notin DOMAIN R.refs THEN Raise(init_attributes(m), "TypeError")
    ELSE Ok([init_attributes(m) EXCEPT !.commits = Walk(R, name)])

\* What a run leaves: the repository, the model, the branch of the model,
\* whether populate ran, and the fields of the worker.
Outcome(S, m, branch, populated, ret, success) ==
    [R |-> S.R, m |-> m, branch |-> branch, populated |-> populated, ret |-> ret,
     success |-> success, failed |-> S.failed, conflict |-> S.conflict,
     last |-> S.last, progress |-> S.progress, unmerged |-> S.unmerged,
     updated |-> S.updated, hit |-> S.hit]

\* The end of pick_and_commit, once every commit was picked.
move_branch(m, w, S) ==
    LET upd == git_update_ref(S.R, Scratch, S.last, w.F.upd)
        co == git_checkout(upd.R, Scratch, w.F.co_s)
        S1 == [S EXCEPT !.failed = @ \cup (IF upd.ok THEN {} ELSE {"update-ref"})
                                     \cup (IF co.ok THEN {} ELSE {"checkout"})]
        renamed == m.nbn # <<>>
        mv == git_branch_M(co.R, IF renamed THEN m.nbn ELSE w.branch, w.F.mv)
        R1 == IF renamed THEN git_branch_D(mv.R, w.branch).R ELSE mv.R
        S2 == [S1 EXCEPT !.R = R1]
        branch == IF renamed THEN m.nbn ELSE w.branch
        m1 == IF renamed THEN [m EXCEPT !.mods = EmptyMap] ELSE m
    IN
    IF renamed /\ m.nbn \notin DOMAIN R1.refs
    THEN Outcome(S2, m, w.branch, FALSE, "IndexError", FALSE)
    ELSE IF w.dont_populate THEN Outcome(S2, m1, branch, FALSE, "True", TRUE)
    ELSE LET pop == populate(m1, R1, branch)
         IN IF pop.exc # "" THEN Outcome(S2, pop.m, branch, TRUE, pop.exc, FALSE)
            ELSE Outcome(S2, pop.m, branch, TRUE, "True", TRUE)

pick_and_commit(m, w, R) ==
    LET co == git_checkout_b(R, w.start, Scratch, w.F.co_b)
        S0 == [R |-> co.R, updated |-> EmptyMap, last |-> NoSha, progress |-> 0,
               failed |-> IF co.ok THEN {} ELSE {"checkout -b"},
               conflict |-> w.conflicting, unmerged |-> w.unmerged, hit |-> {}]
    IN
    IF \E c \in Range(m.commits) : IsDummy(c)
    THEN Outcome(S0, m, w.branch, FALSE, "TypeError", FALSE)
    ELSE
    LET w1 == [w EXCEPT !.should = all_should_be_updated(m, R.graph, w.start)]
        r == ref_update_each(m, w1, S0, children_commits_to_rewrite(m, R.graph, w.start))
    IN IF r.ret # "True" THEN Outcome(r.S, m, w.branch, FALSE, r.ret, FALSE)
       ELSE move_branch(m, w1, r.S)

\* run: pick_and_commit, then cleanup_repo whatever happened; _finished is
\* set when no exception went through.
run(m, w, R) ==
    LET r == pick_and_commit(m, w, R)
    IN [r EXCEPT !.R = cleanup_repo(r.R, w.fallback)]

Raised(ret) == IF ret \in {"True", "False"} THEN "" ELSE ret

\* The commit of the top row, leading DummyCommits skipped; NoSha when there
\* is none.
TopCommit(m) ==
    LET real == SelectSeq(m.commits, LAMBDA c : ~IsDummy(c))
    IN IF real = <<>> THEN NoSha ELSE Head(real)

\* The thread of a write(): a worker whose _start_commit is a commit of the
\* model, which is what __init__ and pick_and_commit take the value of
\* get_start_write_from() to be.
RunOf(start, F, force, dont_populate) ==
    /\ current_branch \in DOMAIN refs
    /\ LET w == [start |-> start, branch |-> current_branch,
                 fallback |-> current_branch, F |-> F, force |-> force,
                 dont_populate |-> dont_populate, should |-> {},
                 solutions |-> solutions, conflicting |-> conflicting_commit,
                 unmerged |-> unmerged_files]
       IN \E r \in {run(M, w, Repo)} :
          /\ Apply(r.m)
          /\ refs' = r.R.refs
          /\ head' = r.R.head
          /\ graph' = r.R.graph
          /\ objects' = r.R.objects
          /\ current_branch' = r.branch
          /\ git_process' = IF r.populated THEN "None" ELSE "worker"
          /\ start_write_cache' = IF r.populated THEN EmptyMap ELSE start_write_cache
          /\ children_cache' = IF r.populated THEN EmptyMap ELSE children_cache
          /\ worker' = [state |-> "stopped", start |-> start,
                        branch |-> current_branch, tip |-> refs[current_branch],
                        finished |-> Raised(r.ret) = "", success |-> r.success,
                        raised |-> Raised(r.ret), failed |-> r.failed,
                        conflict |-> r.conflict, last |-> r.last,
                        progress |-> r.progress, top |-> TopCommit(M),
                        refs0 |-> refs, env |-> F, m0 |-> M,
                        runs |-> worker.runs + 1, updated |-> r.updated,
                        hit |-> r.hit, solutions |-> solutions]
          /\ conflicting_commit' = IF r.populated THEN NoSha ELSE r.conflict
          /\ unmerged_files' = IF r.populated THEN None ELSE r.unmerged
          /\ solutions' = IF r.populated THEN EmptyMap ELSE solutions

\* write() and the end of its thread in one step.
Run(start, F, force, dont_populate) ==
    /\ worker.runs < MaxRuns
    /\ worker.state = "none" \/ conflicting_commit \in DOMAIN solutions
    /\ written \in {"not called", "started"}
    /\ RunOf(start, F, force, dont_populate)
    /\ written' = "started"
    /\ budget' = 0
    /\ UNCHANGED <<threads, snap, post, phase>>

\* A commit made on the branch by someone else once the model is loaded.
Pushed == 9 * Copies

Advance ==
    /\ worker.state = "none" /\ written = "not called"
    /\ current_branch \in DOMAIN refs
    /\ Pushed \notin DOMAIN graph
    /\ graph' = (Pushed :> <<refs[current_branch]>>) @@ graph
    /\ refs' = [refs EXCEPT ![current_branch] = Pushed]
    /\ UNCHANGED <<commits, modifications, detached, deleted_commits, history,
                   last_history_event, merge, new_branch_name, start_write_cache,
                   children_cache,
                   git_process, head, objects, worker, current_branch, written,
                   conflicting_commit, unmerged_files, solutions, threads,
                   snap, post, phase, budget>>

\* set_conflict_solutions: the solutions are stored for the conflicting
\* commit of the model, whatever it is.
SetConflictSolutions(given) ==
    /\ conflicting_commit \notin DOMAIN solutions
    /\ solutions' = (conflicting_commit :> given) @@ solutions
    /\ UNCHANGED <<commits, modifications, detached, deleted_commits, history,
                   last_history_event, merge, new_branch_name, start_write_cache,
                   children_cache,
                   git_process, graph, refs, head, objects, worker,
                   current_branch, written, conflicting_commit, unmerged_files,
                   threads, snap, post, phase, budget>>

InitReplay ==
    /\ graph \in Graphs
    /\ InitModel
    /\ phase = "off"
    /\ budget = MaxEdits

NextReplay ==
    \/ StartHistoryEvent
    \/ \E r \in Rows(M) : SetData(r, "message", Str(2))
    \/ \E p \in Rows(M) : RemoveRows(p, 1)
    \/ SetNewBranchName(<<"t">>)
    \/ Advance
    \/ \E start \in Range(commits), F \in Failures, force \in BOOLEAN :
           Run(start, F, force, FALSE)

SpecReplay == InitReplay /\ [][NextReplay]_vars

\* The runs that meet conflicts, the solutions given for them and the runs
\* made again.
NextConflict ==
    \/ \E given \in {AllPaths, SomePaths} : SetConflictSolutions(given)
    \/ \E start \in Range(commits), F \in Failures :
           Run(start, F, FALSE, FALSE)

SpecConflict == InitReplay /\ [][NextConflict]_vars

\* ---------------------------------------------------------------- branches
\* A repository with a second branch, on the oldest commit.
OtherBranch == <<"t">>

InitBranches ==
    /\ graph \in Graphs
    /\ InitWith((OldBranchName :> 1) @@ (OtherBranch :> FrontierCommits))
    /\ phase = "off"
    /\ budget = MaxEdits

NextBranches ==
    \/ StartHistoryEvent
    \/ \E name \in {OtherBranch, <<"u">>} : SetNewBranchName(name)
    \/ \E start \in Range(commits), F \in Failures :
           Run(start, F, FALSE, FALSE)

SpecBranches == InitBranches /\ [][NextBranches]_vars

\* ----------------------------------------------------------------- threads
\* write(): the worker is made, kept in _git_process, and its thread
\* started, whatever worker the model already has.
Start(start, force) ==
    /\ worker.runs + Len(threads) < MaxThreads
    /\ threads' = Append(threads, [start |-> start, force |-> force])
    /\ git_process' = "worker"
    /\ written' = "started"
    /\ UNCHANGED <<commits, modifications, detached, deleted_commits, history,
                   last_history_event, merge, new_branch_name, start_write_cache,
                   children_cache,
                   graph, refs, head, objects, worker, current_branch,
                   conflicting_commit, unmerged_files, solutions,
                   snap, post, phase, budget>>

\* A started thread runs to its end.
ThreadRun(i, F) ==
    /\ i \in 1..Len(threads)
    /\ RunOf(threads[i].start, F, threads[i].force, FALSE)
    /\ threads' = ListPop(threads, i - 1)
    /\ UNCHANGED <<written, snap, post, phase, budget>>

NextThreads ==
    \/ \E start \in Range(commits) : Start(start, FALSE)
    \/ \E i \in 1..MaxThreads, F \in Failures : ThreadRun(i, F)

SpecThreads == InitReplay /\ [][NextThreads]_vars

\* ------------------------------------------------------------------ write()
\* write(): git_filter_rebase.__init__ asks get_start_write_from(), which
\* gives a set, and looks it up with get_commits().index(): no commit equals
\* a set, the lookup raises and _git_process is not assigned.
Write(order) ==
    /\ written = "not called"
    /\ start_write_cache' = get_start_write_from(M, start_write_cache, graph, order).cache
    /\ UNCHANGED children_cache
    /\ written' = "raised"
    /\ UNCHANGED <<commits, modifications, detached, deleted_commits, history,
                   last_history_event, merge, new_branch_name, git_process,
                   graph, refs, head, objects, worker, current_branch,
                   conflicting_commit, unmerged_files, solutions, threads,
                   snap, post, phase, budget>>

\* set_data with or without an event started: without one the value is
\* written and IndexError raised.
SetDataNow(r, f, v) ==
    /\ budget > 0 /\ written = "not called"
    /\ LET res == set_data(M, r, f, v, FALSE) IN Apply(res.m) /\ Edited(res.exc)
    /\ UNCHANGED <<start_write_cache, children_cache, repo_vars>>

is_finished_writing == git_process = "None" \/ worker.finished

is_write_success == git_process # "None" /\ worker.success

\* GitModel(directory).data(Index(row, column)): the model of the branch HEAD
\* is on, newly loaded.
NewModelData(r, f) == OrigData(Walk(Repo, head.branch)[r + 1], f)

NextWrite ==
    \/ StartHistoryEvent
    \/ \E r \in Rows(M), f \in ExploredFields : \E v \in InputValues(f) : SetDataNow(r, f, v)
    \/ \E order \in Orders(ModifiedKeys(M)) : Write(order)

SpecWrite == Init /\ [][NextWrite]_vars

\* ------------------------------------------------- statements on the model
OpenEvent == last_history_event >= 0

\* C1: after start_history_event() and any sequence of edits that returned,
\* undo() gives back every data(row, column), the sequence of commits and the
\* deleted set as they were when the event was started.
C1_UndoRestoresView == phase = "undone" => View(M) = snap

\* C2: after start_history_event(), edits, undo() and then redo(), every
\* data(row, column), the sequence of commits and the deleted set are what they
\* were just before the undo().
C2_RedoRestoresView == phase = "redone" => View(M) = post

\* The Set action set_data(r, f, v) appends: old is the value the cell held,
\* or the epoch of it for a time column.
IsSetActionOf(a, r, f, d, v) ==
    /\ a.t = "Set" /\ a.pos = r /\ a.f = f /\ a.new = v
    /\ a.old \in {d, IntV(d[2])}

\* C3: with an event open, for every row r in range, column c and value v
\* with data(r, c) # v, set_data(r, c, v) returns, makes data(r, c) = v and
\* appends exactly one Set action to the current event; with ignore_history
\* it makes data(r, c) = v and leaves the history as it is.
C3_SetDataSetsAndRecords ==
    \A r \in Rows(M), f \in EditableFields : \A v \in InputValues(f) :
        (OpenEvent /\ data(M, r, f) # v) =>
            LET res == set_data(M, r, f, v, FALSE)
                ign == set_data(M, r, f, v, TRUE)
                e == last_history_event + 1
            IN /\ res.exc = "" /\ ign.exc = ""
               /\ data(res.m, r, f) = v
               /\ Len(res.m.history[e]) = Len(history[e]) + 1
               /\ res.m.history = [history EXCEPT ![e] = Append(@, res.m.history[e][Len(@) + 1])]
               /\ IsSetActionOf(res.m.history[e][Len(history[e]) + 1], r, f, data(M, r, f), v)
               /\ data(ign.m, r, f) = v
               /\ ign.m.history = history

\* C4: with merge on and an event open, for every row r, every paired column
\* c and every value t, whatever the two columns hold, set_data(r, c, t) makes
\* the paired column of c read t, and appends no more than one action.
C4_MergeWritesPairedField ==
    \A r \in Rows(M), f \in TIME_FIELDS \cup ACTOR_FIELDS : \A t \in InputValues(f) :
        (OpenEvent /\ merge) =>
            LET res == set_data(M, r, f, t, FALSE)
                e == last_history_event + 1
            IN /\ data(res.m, r, MergedField(f)) = t
               /\ Len(res.m.history[e]) <= Len(history[e]) + 1

\* The commits insert_rows(position, rows) inserts in m.
Inserted(m, position, rows) ==
    LET res == insert_rows(m, position, rows)
    IN Range(res.m.commits) \ Range(m.commits)

\* C5: in every state, for every position p in 0..len(commits) and every
\* n >= 1, start_history_event(); insert_rows(p, n); undo() leaves the
\* sequence of commits as it was, every inserted DummyCommit out of commits
\* and out of the modifications.
C5_InsertThenUndo ==
    \A p \in 0..Len(commits), n \in 1..MaxDummies :
        Cardinality(FreeDummies(start_history_event(M))) >= n =>
            LET m0 == start_history_event(M)
                ins == insert_rows(m0, p, n)
                und == undo_history(ins.m)
            IN /\ ins.exc = "" /\ und.exc = ""
               /\ Cardinality(Inserted(m0, p, n)) = n
               /\ Len(ins.m.commits) = Len(commits) + n
               /\ und.m.commits = commits
               /\ und.m.mods = modifications
               /\ Inserted(m0, p, n) \cap (Range(und.m.commits) \cup DOMAIN und.m.mods) = {}

\* An event made of two insertions was undone: the rows are the loaded ones
\* and no DummyCommit has modifications.
C5_Witness ==
    /\ Len(history) = 1 /\ last_history_event = -1
    /\ Len(history[1]) = 2
    /\ \A j \in 1..2 : history[1][j].t = "Insert"
    /\ commits = [i \in 1..NumCommits |-> i]
    /\ DOMAIN modifications \cap DummyCommits = {}

\* The commits of rows position..position+rows-1 that are not deleted in m,
\* in the order of the rows, each once.
RECURSIVE NewlyDeleted(_, _, _)
NewlyDeleted(m, position, rows) ==
    IF rows = 0 THEN <<>>
    ELSE LET before == NewlyDeleted(m, position, rows - 1)
             c == m.commits[position + rows]
         IN IF is_deleted(m, c) \/ c \in Range(before) THEN before
            ELSE Append(before, c)

C7_FrontierCoversModified ==
    \A order \in Orders(ModifiedKeys(M)) :
        LET res == get_start_write_from(M, start_write_cache, graph, order) IN
        res.exc = "" =>
            \A c \in Range(commits) :
                commit_is_modified(M, c) =>
                    \/ c \in res.P
                    \/ ~IsDummy(c) /\ res.P \cap all_parents(graph, c) # {}

\* C8: in every state and for every graph of the repository, no commit of the
\* set get_start_write_from() returns is among all the parents of another one
\* of the set, in whatever order the sets are iterated.
C8_FrontierIsAntichain ==
    \A order \in Orders(ModifiedKeys(M)) :
        LET res == get_start_write_from(M, start_write_cache, graph, order) IN
        res.exc = "" =>
            \A p \in res.P, q \in res.P :
                (p # q /\ ~IsDummy(q)) => p \notin all_parents(graph, q)

\* Two commits are modified, one among the parents of the other, and the set
\* computed for them is the older one alone.
C8_Witness ==
    /\ Cardinality(ModifiedKeys(M)) = 2
    /\ CacheKey(M) \in DOMAIN start_write_cache
    /\ \E p \in ModifiedKeys(M), q \in ModifiedKeys(M) :
           /\ p \in all_parents(graph, q)
           /\ start_write_cache[CacheKey(M)] = {p}

\* C9: once write() was called and is_finished_writing() is true, a model
\* newly loaded from the repository reads, at every row and column, what the
\* edited model reads: the value set at the edited cell, the same value
\* elsewhere.
C9_WrittenValuesAreLoaded ==
    (written # "not called" /\ is_finished_writing) =>
        \A r \in Rows(M), f \in EditableFields : NewModelData(r, f) = data(M, r, f)

C11_MovedRepoIsRefused ==
    (worker.state = "stopped" /\ worker.tip # worker.top) =>
        /\ worker.raised = "RepoMoved"
        /\ refs = worker.refs0

\* The branch of three commits, each the parent of the one above.
LinearBranch ==
    \A c \in 1..FrontierCommits :
        graph[c] = IF c < FrontierCommits THEN <<c + 1>> ELSE <<>>

\* The worker ran on the model of the branch as it was loaded, no git
\* command failed for a reason of its own and no cherry-pick conflicted.
CleanRun ==
    /\ worker.state = "stopped"
    /\ worker.tip = worker.top
    /\ worker.env = NoFailures

\* C12: on the linear branch, with the middle commit deleted and nothing
\* else edited, a run without conflict leaves a branch of one commit less:
\* the copy of the commit above the deleted one, on the parent of the
\* deleted one.
C12_DeletedMiddleIsLeftOut ==
    (/\ CleanRun /\ LinearBranch
     /\ worker.m0.deleted = <<2>>
     /\ worker.m0.mods = EmptyMap /\ worker.m0.nbn = <<>>) =>
        /\ worker.branch \in DOMAIN refs
        /\ LET branch == Walk(Repo, worker.branch)
           IN /\ Len(branch) = FrontierCommits - 1
              /\ OrigOf(branch[1]) = 1 /\ branch[1] # 1
              /\ branch[2] = 3

\* The last run stopped on a cherry-pick that reported a conflict for which
\* no solution was stored.
HaltedOnConflict == worker.state = "stopped" /\ "cherry-pick" \in worker.failed

NoEdit ==
    /\ modifications = EmptyMap /\ deleted_commits = <<>>
    /\ new_branch_name = <<>> /\ \A c \in Range(commits) : ~IsDummy(c)

\* C15: once write() was called on a model with no edit, the branch holds
\* the commits that were loaded, with the parents they had, and the write is
\* finished with success.
C15_WriteOfNothingSucceeds ==
    (written # "not called" /\ NoEdit) =>
        /\ Walk(Repo, current_branch) = commits
        /\ \A c \in Range(commits) : graph[c] = LinearGraph[c]
        /\ is_finished_writing /\ is_write_success

\* C16: once the worker has finished, is_write_success() is true after a
\* run in which no cherry-pick conflicted and no git command failed, and
\* false after a run halted on a conflict.
C16_SuccessIsReported ==
    (worker.state = "stopped" /\ worker.finished) =>
        /\ (CleanRun /\ worker.failed = {} /\ worker.hit = {}) => is_write_success
        /\ HaltedOnConflict => ~is_write_success

CommandsWork ==
    /\ ~worker.env.co_b /\ ~worker.env.upd
    /\ ~worker.env.co_s /\ ~worker.env.mv

\* The tip of the history the last run made: the last commit it wrote, or
\* the start commit when it wrote none.
ReplayedTip == IF worker.last # NoSha THEN worker.last ELSE worker.start

C20_NewEventDropsRedoTail ==
    LET k == last_history_event
        m == start_history_event(M)
    IN /\ m.cursor = k + 1
       /\ Len(m.history) = k + 2
       /\ m.cursor = Len(m.history) - 1
       /\ \A i \in 1..(k + 1) : m.history[i] = history[i]
       /\ m.history[k + 2] = <<>>
       /\ redo_history(m) = Ok(m)

\* An event was undone and its actions are still there to redo, after an
\* event with actions of its own: the next start_history_event() has a tail
\* to drop and an event to keep.
C20_Witness ==
    /\ last_history_event = 0 /\ Len(history) = 2
    /\ history[1] # <<>> /\ history[2] # <<>>
    /\ start_history_event(M).history = <<history[1], <<>>>>

\* ------------------------------------------------------ modified commits
\* The column of the commit holds an overlay value that is not the original.
Differs(m, c, f) ==
    /\ c \in DOMAIN m.mods
    /\ f \in DOMAIN m.mods[c]
    /\ m.mods[c][f] # OrigData(c, f)

Overlaid(m, c) == IsDummy(c) \/ \E f \in Columns : Differs(m, c, f)

NextColumns ==
    \/ StartHistoryEvent
    \/ \E r \in Rows(M), f \in {"children", "message"} :
           \E v \in InputValues(f) : SetData(r, f, v)
    \/ \E p \in 0..Len(commits) : InsertRows(p, 1)
    \/ \E p \in Rows(M) : RemoveRows(p, 1)
    \/ Undo

SpecColumns == Init /\ [][NextColumns]_vars

\* The commits of the model not marked deleted that are DummyCommits or hold
\* a differing overlay value in one of the columns.
Counted(m, columns) ==
    {c \in Range(m.commits) :
        ~is_deleted(m, c) /\ (IsDummy(c) \/ \E f \in columns : Differs(m, c, f))}

changed_branch_once == FALSE

\* EditableGitModel.set_current_branch on a model that is not fake, with the
\* call of the same method of orig_model and of GitModel.
set_current_branch(m, current, branch, force) ==
    IF changed_branch_once /\ ~force
    THEN [m |-> m, branch |-> current, exc |-> "GfbiException"]
    ELSE [m |-> [m EXCEPT !.mods = EmptyMap], branch |-> branch, exc |-> ""]

BranchNames == {OldBranchName, <<"t">>, <<"u">>}

SetCurrentBranch(branch, force) ==
    /\ LET res == set_current_branch(M, current_branch, branch, force)
       IN Apply(res.m) /\ current_branch' = res.branch
    /\ UNCHANGED <<start_write_cache, children_cache, git_process, graph, refs, head, objects,
                   worker, written, conflicting_commit, unmerged_files,
                   solutions, threads, snap, post, phase, budget>>

NextCurrentBranch ==
    \/ StartHistoryEvent
    \/ \E r \in Rows(M), v \in InputValues("message") : SetData(r, "message", v)
    \/ \E b \in BranchNames, force \in BOOLEAN : SetCurrentBranch(b, force)

SpecCurrentBranch == Init /\ [][NextCurrentBranch]_vars

\* C23: once set_current_branch has been called on the model, a call without
\* force fails with the "You shouldn't change the branch twice." error and
\* leaves the current branch as it is, and a call with force succeeds.
C23_SecondChangeIsRefused ==
    current_branch # OldBranchName =>
        \A b \in BranchNames :
            LET plain == set_current_branch(M, current_branch, b, FALSE)
                forced == set_current_branch(M, current_branch, b, TRUE)
            IN /\ plain.exc = "GfbiException"
               /\ plain.branch = current_branch
               /\ forced.exc = "" /\ forced.branch = b

\* ------------------------------------------------------- rows out of range
\* The rows a caller may give that are not rows of the model.
OutOfRange(m) == {0 - 1, Len(m.commits), Len(m.commits) + 1}

\* C24: set_data and is_deleted(index) with a row outside
\* [0, len(commits) - 1] fail with the "Invalid index" error, and the failed
\* set_data leaves modifications, deleted, commits and the history unchanged;
\* with a row of the model is_deleted(index) returns the mark of its commit.
C24_OutOfRangeIsRefused ==
    /\ \A r \in OutOfRange(M), f \in EditableFields : \A v \in InputValues(f) :
           \A ignore_history \in BOOLEAN :
               LET res == set_data(M, r, f, v, ignore_history)
               IN /\ res.exc = "GfbiException"
                  /\ res.m = M
                  /\ is_deleted_index(M, r).exc = "GfbiException"
    /\ \A r \in Rows(M) :
           /\ is_deleted_index(M, r).exc = ""
           /\ is_deleted_index(M, r).val = (commits[r + 1] \in Range(deleted_commits))

\* The model holds modifications, a deleted commit and a recorded action when
\* set_data is called with the row just past the last one, and fails.
C24_Witness ==
    /\ modifications # EmptyMap
    /\ Len(deleted_commits) > 0
    /\ OpenEvent /\ Len(history[last_history_event + 1]) > 0
    /\ set_data(M, Len(commits), "message", Str(2), FALSE).exc = "GfbiException"

\* --------------------------------------------------- the new branch name
\* The names a caller gives: plain, padded with whitespace, the name of the
\* branch of the model, and names the validation refuses.
GivenNames ==
    {<<"t">>, <<" ", "t", " ">>, <<"u">>, OldBranchName,
     <<" ">> \o OldBranchName, <<".">>, <<"t", " ", "u">>}

is_name_modified(m) == m.nbn # <<>>

NextNames ==
    \/ StartHistoryEvent
    \/ \E name \in GivenNames : SetNewBranchName(name)
    \/ Undo
    \/ Redo

SpecNames == Init /\ [][NextNames]_vars

ShouldBeUpdated == all_should_be_updated(worker.m0, graph, worker.start)

\* The commits the last run created, on its first run.
Rewritten(c) == {sha \in DOMAIN objects : OrigOf(sha) = c}

\* The -p arguments of a created commit: for every parent of the original, its
\* new sha when it had to be rewritten, the parent itself when not.
ParentsAreReplayed(sha) ==
    LET c == OrigOf(sha) IN
    /\ Len(graph[sha]) = Len(graph[c])
    /\ \A i \in 1..Len(graph[c]) :
           LET p == graph[c][i] IN
           IF p \in ShouldBeUpdated
           THEN p \in DOMAIN worker.updated /\ graph[sha][i] = worker.updated[p]
           ELSE graph[sha][i] = p

\* A merge the run deferred: the first commit the run visits, before any
\* commit is rewritten, with a parent that has to be rewritten.
Deferred(c) ==
    LET first == children_commits_to_rewrite(worker.m0, graph, worker.start) IN
    /\ first # <<>> /\ c = Head(first)
    /\ ~is_deleted(worker.m0, c)
    /\ Len(graph[c]) > 1
    /\ \E p \in Range(graph[c]) : p \in ShouldBeUpdated

Timelapses ==
    {<<[from |-> 1, to |-> 3]>>,
     <<[from |-> 1, to |-> 2], [from |-> 4, to |-> 6]>>}

RECURSIVE get_total_seconds(_)
get_total_seconds(timelapse) ==
    IF timelapse = <<>> THEN 0
    ELSE Head(timelapse).to - Head(timelapse).from
         + get_total_seconds(Tail(timelapse))

\* The instant of the seconds-th admissible second, -1 when there is none.
RECURSIVE datetime_from_seconds(_, _)
datetime_from_seconds(timelapse, seconds) ==
    IF timelapse = <<>> THEN 0 - 1
    ELSE LET w == Head(timelapse) IN
         IF seconds < w.to - w.from THEN w.from + seconds
         ELSE datetime_from_seconds(Tail(timelapse), seconds - (w.to - w.from))

\* random() gives a number of [0, 1): Fractions are the numerators over
\* Denominator; int(random() * total_seconds) is the offset drawn.
Denominator == 4
Fractions == 0..(Denominator - 1)
Offset(fraction, total_seconds) == (fraction * total_seconds) \div Denominator

\* list.sort(): ascending.
RECURSIVE Insert(_, _)
Insert(s, x) ==
    IF s = <<>> THEN <<x>>
    ELSE IF x <= Head(s) THEN <<x>> \o s
    ELSE <<Head(s)>> \o Insert(Tail(s), x)

RECURSIVE Sort(_)
Sort(s) == IF s = <<>> THEN <<>> ELSE Insert(Sort(Tail(s)), Head(s))

\* The loop of reorder_commits over the commits, from the row index on.
RECURSIVE assign_dates(_, _, _, _)
assign_dates(m, timelapse, distribution, index) ==
    IF index >= Len(m.commits) THEN m
    ELSE
    LET commit == m.commits[index + 1]
        new_commit_time == datetime_from_seconds(timelapse, distribution[index + 1])
        authored == set_field_data(m.mods, commit, "authored_date", IntV(new_commit_time))
        both == set_field_data(authored, commit, "committed_date", IntV(new_commit_time))
    IN assign_dates([m EXCEPT !.mods = both], timelapse, distribution, index + 1)

\* The offsets drawn for the fractions random() gave, one for every commit.
Distribution(timelapse, fractions) ==
    [i \in 1..Len(fractions) |-> Offset(fractions[i], get_total_seconds(timelapse))]

\* reorder_commits that leaves the offsets in the order they were drawn.
reorder_commits_unsorted(m, timelapse, fractions) ==
    assign_dates(m, timelapse, Distribution(timelapse, fractions), 0)

reorder_commits(m, timelapse, fractions) ==
    assign_dates(m, timelapse, Sort(Distribution(timelapse, fractions)), 0)

ReorderCommits(timelapse, fractions) ==
    /\ Apply(reorder_commits(M, timelapse, fractions))
    /\ UNCHANGED <<start_write_cache, children_cache, repo_vars, snap, post, phase, budget>>

NextReorder ==
    \/ StartHistoryEvent
    \/ \E p \in 0..Len(commits) : Len(commits) < MaxReorderRows /\ InsertRows(p, 1)
    \/ \E timelapse \in Timelapses, fractions \in [1..Len(commits) -> Fractions] :
           ReorderCommits(timelapse, fractions)

SpecReorder == Init /\ [][NextReorder]_vars

NonDecreasing(s) == \A i \in 1..(Len(s) - 1) : s[i] <= s[i + 1]

\* C27: after reorder_commits every row has authored_date equal to
\* committed_date, row k holds the instant of the k-th smallest offset drawn,
\* the dates do not decrease in row order, and every offset drawn is in
\* [0, total_seconds).
C27_DatesFollowRowOrder ==
    \A timelapse \in Timelapses, fractions \in [1..Len(commits) -> Fractions] :
        LET after == reorder_commits(M, timelapse, fractions)
            drawn == Distribution(timelapse, fractions)
            dates == [i \in 1..Len(commits) |-> data(after, i - 1, "authored_date")]
        IN /\ \A i \in 1..Len(commits) :
                  /\ dates[i] = data(after, i - 1, "committed_date")
                  /\ dates[i] = IntV(datetime_from_seconds(timelapse, Sort(drawn)[i]))
                  /\ 0 <= drawn[i] /\ drawn[i] < get_total_seconds(timelapse)
           /\ NonDecreasing([i \in 1..Len(commits) |-> dates[i][2]])
           /\ after.commits = commits

\* The commits were given dates that differ: the first row holds the earlier.
C27_Witness ==
    /\ Len(commits) >= 2
    /\ \A i \in 1..Len(commits) :
           /\ data(M, i - 1, "authored_date")[1] = "int"
           /\ data(M, i - 1, "authored_date") = data(M, i - 1, "committed_date")
    /\ data(M, 0, "authored_date")[2] < data(M, 1, "authored_date")[2]

StartThread(start, dont_populate) ==
    /\ threads = <<>> /\ worker.state = "none" /\ written = "not called"
    /\ threads' = <<[start |-> start, force |-> FALSE,
                     dont_populate |-> dont_populate]>>
    /\ git_process' = "worker"
    /\ written' = "started"
    /\ UNCHANGED <<commits, modifications, detached, deleted_commits, history,
                   last_history_event, merge, new_branch_name, start_write_cache,
                   children_cache,
                   graph, refs, head, objects, worker, current_branch,
                   conflicting_commit, unmerged_files, solutions,
                   snap, post, phase, budget>>

\* The thread runs pick_and_commit, to its return or to the exception it
\* raises; cleanup_repo and the assignment of _finished are still to come.
PickAndCommit(F) ==
    /\ threads # <<>> /\ worker.state = "none"
    /\ current_branch \in DOMAIN refs
    /\ LET t == threads[1]
           w == [start |-> t.start, branch |-> current_branch,
                 fallback |-> current_branch, F |-> F, force |-> t.force,
                 dont_populate |-> t.dont_populate, should |-> {},
                 solutions |-> solutions, conflicting |-> conflicting_commit,
                 unmerged |-> unmerged_files]
       IN \E r \in {pick_and_commit(M, w, Repo)} :
          /\ Apply(r.m)
          /\ refs' = r.R.refs
          /\ head' = r.R.head
          /\ graph' = r.R.graph
          /\ objects' = r.R.objects
          /\ current_branch' = r.branch
          /\ git_process' = IF r.populated THEN "None" ELSE git_process
          /\ start_write_cache' = IF r.populated THEN EmptyMap ELSE start_write_cache
          /\ children_cache' = IF r.populated THEN EmptyMap ELSE children_cache
          /\ worker' = [state |-> "cleanup", start |-> t.start,
                        branch |-> current_branch, tip |-> refs[current_branch],
                        finished |-> FALSE, success |-> r.success,
                        raised |-> Raised(r.ret), failed |-> r.failed,
                        conflict |-> r.conflict, last |-> r.last,
                        progress |-> r.progress, top |-> TopCommit(M),
                        refs0 |-> refs, env |-> F, m0 |-> M,
                        runs |-> worker.runs + 1, updated |-> r.updated,
                        hit |-> r.hit, solutions |-> solutions]
          /\ conflicting_commit' = IF r.populated THEN NoSha ELSE r.conflict
          /\ unmerged_files' = IF r.populated THEN None ELSE r.unmerged
          /\ solutions' = IF r.populated THEN EmptyMap ELSE solutions
    /\ UNCHANGED <<threads, written, snap, post, phase, budget>>

\* The finally clause of run, then, when no exception goes through it, the
\* assignment of _finished; the thread ends.
CleanupRepo ==
    /\ threads # <<>> /\ worker.state = "cleanup"
    /\ LET R == cleanup_repo(Repo, worker.branch)
       IN /\ refs' = R.refs
          /\ head' = R.head
          /\ graph' = R.graph
          /\ objects' = R.objects
    /\ worker' = [worker EXCEPT !.state = "stopped",
                                !.finished = (worker.raised = "")]
    /\ threads' = <<>>
    /\ UNCHANGED <<commits, modifications, detached, deleted_commits, history,
                   last_history_event, merge, new_branch_name, start_write_cache,
                   children_cache,
                   git_process, current_branch, written, conflicting_commit,
                   unmerged_files, solutions, snap, post, phase, budget>>

NextSteps ==
    \/ \E start \in Range(commits), dont_populate \in BOOLEAN :
           StartThread(start, dont_populate)
    \/ \E F \in Failures : PickAndCommit(F)
    \/ CleanupRepo

SpecSteps == InitReplay /\ [][NextSteps]_vars

Characters == {"a", "."} \cup Whitespace
Candidates ==
    {<<>>} \cup {<<x>> : x \in Characters}
           \cup {<<x, y>> : x \in Characters, y \in Characters}

HasWhitespace(name) == \E i \in 1..Len(name) : name[i] \in Whitespace

\* C26: validate_branch_name refuses the empty name and every name with a
\* whitespace character without running git, and any other name exactly when
\* git check-ref-format refs/tags/<name> fails; is_valid_branch_name returns
\* (True, None) exactly for the names validate_branch_name accepts.  The names
\* are the candidates and the new branch name the model holds.
C26_ValidNames ==
    \A name \in Candidates \cup {new_branch_name} :
        /\ (name = <<>> \/ HasWhitespace(name)) =>
               ~validate_branch_name(name) /\ ~consults_git(name)
        /\ ~(name = <<>> \/ HasWhitespace(name)) =>
               (validate_branch_name(name) <=> check_ref_format(name))
        /\ is_valid_branch_name(name) = <<TRUE, "None">>
               <=> validate_branch_name(name)

ResultingBranch ==
    IF worker.m0.nbn # <<>> THEN worker.m0.nbn ELSE worker.branch

\* The first run of a worker given the one modified commit of its model, no
\* git command failing, no cherry-pick conflicting, ended with success.
ReplayOfFrontier ==
    /\ CleanRun /\ worker.runs = 1
    /\ worker.hit = {} /\ worker.success
    /\ ModifiedKeys(worker.m0) = {worker.start}

KeptRows(m) == {r \in 1..Len(m.commits) : ~is_deleted(m, m.commits[r])}

\* A conflict-free replay that completed: the first run of a worker, no git
\* command failing for a reason of its own, ended with success.
CompletedReplay ==
    /\ CleanRun /\ worker.runs = 1
    /\ worker.hit = {} /\ worker.success

C35_CursorStaysInHistory ==
    /\ last_history_event = -1 /\ history = <<>>
    /\ [][/\ -1 <= last_history_event'
          /\ last_history_event' <= Len(history') - 1
          /\ Undo =>
                 IF last_history_event = -1 THEN M' = M
                 ELSE /\ last_history_event' = last_history_event - 1
                      /\ Len(history') = Len(history)
          /\ Redo =>
                 IF last_history_event = Len(history) - 1 THEN M' = M
                 ELSE /\ last_history_event' = last_history_event + 1
                      /\ Len(history') = Len(history)]_vars

\* ---------------------------------------------------- the events of history
\* C36: a step that is not start_history_event() leaves the number of events
\* and every event but the one at _last_history_event as they are, the events
\* after the cursor among them, also when the cursor is at -1 and history is
\* not empty; the event at the cursor only grows at its end.
C36_EditsLeaveRedoTail ==
    [][StartHistoryEvent \/
       /\ Len(history') = Len(history)
       /\ \A i \in 1..Len(history) :
              IF i = last_history_event + 1
              THEN /\ Len(history'[i]) >= Len(history[i])
                   /\ SubSeq(history'[i], 1, Len(history[i])) = history[i]
              ELSE history'[i] = history[i]]_vars

\* ------------------------------------------------- the names that are refused
\* C37: a set_new_branch_name(name) whose name, once trimmed, is not the name
\* of the branch and is refused by validate_branch_name fails with
\* InvalidRefName and leaves _new_branch_name, _history and
\* _last_history_event as they were.
C37_RefusedNameLeavesNoTrace ==
    [][\A name \in GivenNames :
           (/\ SetNewBranchName(name)
            /\ strip(name) # OldBranchName
            /\ ~validate_branch_name(strip(name))) =>
               /\ set_new_branch_name(M, name, FALSE).exc = "InvalidRefName"
               /\ UNCHANGED <<new_branch_name, history, last_history_event>>]_vars

\* ------------------------------------------------ the rows and the deleted
\* C38: in every state every commit of _deleted_commits is a commit of
\* _commits, and no commit, loaded or DummyCommit, is twice in
\* _deleted_commits or twice in _commits.
C38_RowsAndDeletedAreSets ==
    /\ Range(deleted_commits) \subseteq Range(commits)
    /\ Cardinality(Range(deleted_commits)) = Len(deleted_commits)
    /\ Cardinality(Range(commits)) = Len(commits)

\* ------------------------------------------------ the commits to rewrite
\* The children column of a loaded commit as the model of the branch derives
\* it: the commits that have it among their parents.
OrigChildren(g, c) == {d \in DOMAIN g : c \in Range(g[d])}

\* c_data(commit, "children")
c_data_children(m, g, c) ==
    IF is_modified(m, row_of(m, c), "children")
    THEN modified_data(m, row_of(m, c), "children")
    ELSE OrigChildren(g, c)

\* The loop of all_children: commits are taken from children_to_look, their
\* children added to children, and to children_to_look when they are new.
RECURSIVE children_look(_, _, _, _)
children_look(m, g, children_to_look, children) ==
    IF children_to_look = {} THEN children
    ELSE
    LET commit == CHOOSE c \in children_to_look : TRUE
        found == c_data_children(m, g, commit)
    IN children_look(m, g, (children_to_look \ {commit}) \cup (found \ children),
                     children \cup found)

all_children(m, cache, g, given) ==
    IF CacheKey(m) \in DOMAIN cache
    THEN [children |-> cache[CacheKey(m)], cache |-> cache]
    ELSE LET children == children_look(m, g, given, {})
         IN [children |-> children, cache |-> (CacheKey(m) :> children) @@ cache]

get_to_rewrite_count(m, starts, children, g, order) ==
    LET start_from_commits == get_start_write_from(m, starts, g, order)
    IN IF start_from_commits.exc # ""
       THEN [count |-> 0, starts |-> starts, children |-> children,
             exc |-> start_from_commits.exc]
       ELSE LET all == all_children(m, children, g, start_from_commits.P)
            IN [count |-> Cardinality(all.children)
                              + Cardinality(start_from_commits.P),
                starts |-> start_from_commits.cache,
                children |-> all.cache, exc |-> ""]

\* A call is explored while the caches hold fewer than MaxCached sets.
GetToRewriteCount(order) ==
    /\ Cardinality(DOMAIN start_write_cache) < MaxCached
    /\ Cardinality(DOMAIN children_cache) < MaxCached
    /\ \E r \in {get_to_rewrite_count(M, start_write_cache, children_cache,
                                      graph, order)} :
           /\ r.exc = ""
           /\ start_write_cache' = r.starts
           /\ children_cache' = r.children
    /\ UNCHANGED <<commits, modifications, detached, deleted_commits, history,
                   last_history_event, merge, new_branch_name, repo_vars,
                   snap, post, phase, budget>>

\* The edits, the undo and the redo of the frontier model, with the count of
\* the commits to rewrite asked for in between.
NextCount ==
    \/ StartHistoryEvent
    \/ \E r \in Rows(M) : SetData(r, "message", Str(2))
    \/ Undo
    \/ Redo
    \/ \E order \in Orders(ModifiedKeys(M)) : GetToRewriteCount(order)

SpecCount == InitFrontier /\ [][NextCount]_vars

\* C39: in every state get_to_rewrite_count() is the number of the commits
\* of the frontier of the state plus the number of all their transitive
\* children, both computed anew from the overlay of the state.
C39_CountIsComputedAnew ==
    \A order \in Orders(ModifiedKeys(M)) :
        LET counted == get_to_rewrite_count(M, start_write_cache,
                                            children_cache, graph, order)
            P == get_start_write_from(M, EmptyMap, graph, order).P
            descendants == children_look(M, graph, P, {})
        IN counted.exc = "" =>
               counted.count = Cardinality(P) + Cardinality(descendants)

\* ------------------------------------------------- what moves the rows
\* The event at the cursor, or the next one, holds the insertion of a row.
HoldsInsertion(event) ==
    /\ event >= 1 /\ event <= Len(history)
    /\ \E i \in 1..Len(history[event]) : history[event][i].t = "Insert"

\* C40: set_data, whatever the row, the column and the value, returning or
\* raising, leaves _commits and _deleted_commits as they are; and a step
\* that changes _commits is an insert_rows, or the undo or the redo of an
\* event that holds the insertion of a row.
C40_OnlyInsertionsMoveRows ==
    /\ [](\A r \in 0..Len(commits), f \in ExploredFields :
              \A v \in InputValues(f), ignore_history \in BOOLEAN :
                  LET res == set_data(M, r, f, v, ignore_history)
                  IN /\ res.m.commits = commits
                     /\ res.m.deleted = deleted_commits)
    /\ [][commits' # commits =>
              \/ \E p \in 0..Len(commits), n \in 1..MaxDummies : InsertRows(p, n)
              \/ Undo /\ HoldsInsertion(last_history_event + 1)
              \/ Redo /\ HoldsInsertion(last_history_event + 2)]_vars

\* A deleted row was edited: the event holds the removal of a row and, after
\* it, the edit of the same row.
C40_Witness ==
    /\ last_history_event >= 0
    /\ LET actions == history[last_history_event + 1]
       IN /\ Len(actions) = 2
          /\ actions[1].t = "Remove" /\ actions[2].t = "Set"
          /\ commits[actions[2].pos + 1] = actions[1].c
    /\ deleted_commits # <<>>

====
